---- MODULE Spec2Model ----
(***************************************************************************)
(* A model of the meta-analysis library: outcome records with their        *)
(* process-wide id counter (outcomes/Outcome.py), studies (Study.py) and   *)
(* study pools with their cached effect sizes and variances                *)
(* (StudyPool.py).                                                         *)
(*                                                                         *)
(* Objects live in a heap: an object's address is its index in the         *)
(* sequence of its class (outObjs, studyObjs, poolObjs).  A study holds    *)
(* the addresses of its outcomes, a pool the addresses of its studies, so  *)
(* that two containers can hold the same object and a copy is deep only    *)
(* when it allocates new objects.                                          *)
(*                                                                         *)
(* Floats are modelled as extended rationals <<n, d>>: d > 0 is the finite *)
(* value n/d in lowest terms, <<1,0>> is +inf, <<-1,0>> is -inf and        *)
(* <<0,0>> is NaN.  Arithmetic is exact (no rounding) and zero is          *)
(* unsigned.                                                               *)
(***************************************************************************)
EXTENDS Integers, Sequences, FiniteSets, TLC

VARIABLES
    tracker,      \* Outcome._outcome_id_tracker
    outObjs,      \* heap of Outcome objects
    studyObjs,    \* heap of Study objects
    poolObjs,     \* heap of StudyPool objects
    last,         \* the last call: what was called, on what, and how it ended
    calls,        \* number of calls made so far
    tpc,          \* per thread: position in Outcome.__init__
    tid,          \* per thread: the ids its finished constructors assigned
    tload,        \* per thread: the counter value read by the pending +=
    tdone         \* per thread: number of constructors finished

vars == <<tracker, outObjs, studyObjs, poolObjs, last, calls, tpc, tid, tload, tdone>>

heapVars == <<outObjs, studyObjs, poolObjs, last, calls>>
threadVars == <<tpc, tid, tload, tdone>>

----------------------------------------------------------------------------
(* Bounds of the model *)

\* calls made on the objects of a scenario
MaxCalls     == 2
\* calls made when only outcomes are constructed, combined and copied
MaxCtorCalls == 4
\* longest list of outcomes passed to Study(...), of studies to StudyPool(...)
MaxOutcomeArgs == 1
MaxStudyArgs   == 2
\* threads constructing outcomes, and constructions by each
NumThreads  == 3
PerThread   == 2

----------------------------------------------------------------------------
(* Extended rational arithmetic standing for IEEE floats *)

Abs(x) == IF x < 0 THEN -x ELSE x

Sign(x) == IF x > 0 THEN 1 ELSE IF x < 0 THEN -1 ELSE 0

RECURSIVE GCD(_, _)
GCD(a, b) == IF b = 0 THEN a ELSE GCD(b, a % b)

NaN    == <<0, 0>>
PosInf == <<1, 0>>
NegInf == <<-1, 0>>

Norm(n, d) ==
    IF d = 0 THEN <<Sign(n), 0>>
    ELSE LET g == GCD(Abs(n), Abs(d))
             s == Sign(d)
         IN  <<(s * n) \div g, (s * d) \div g>>

R(n, d) == Norm(n, d)

IsNaN(a) == a = NaN
IsInf(a) == a[2] = 0 /\ a[1] # 0
IsFinite(a) == a[2] > 0
IsZero(a) == a[2] > 0 /\ a[1] = 0

FNeg(a) == <<-a[1], a[2]>>

FAdd(a, b) ==
    IF IsNaN(a) \/ IsNaN(b) THEN NaN
    ELSE IF IsInf(a) THEN (IF IsInf(b) /\ a # b THEN NaN ELSE a)
    ELSE IF IsInf(b) THEN b
    ELSE Norm(a[1] * b[2] + b[1] * a[2], a[2] * b[2])

FSub(a, b) == FAdd(a, FNeg(b))

FMul(a, b) ==
    IF IsNaN(a) \/ IsNaN(b) THEN NaN
    ELSE IF IsInf(a) \/ IsInf(b)
         THEN (IF IsZero(a) \/ IsZero(b) THEN NaN
               ELSE <<Sign(a[1]) * Sign(b[1]), 0>>)
    ELSE Norm(a[1] * b[1], a[2] * b[2])

\* numpy's true division: a zero divisor gives inf or nan (and a warning),
\* never an exception
NpDiv(a, b) ==
    IF IsNaN(a) \/ IsNaN(b) THEN NaN
    ELSE IF IsInf(b) THEN (IF IsInf(a) THEN NaN ELSE <<0, 1>>)
    ELSE IF IsZero(b) THEN (IF IsZero(a) THEN NaN ELSE <<Sign(a[1]), 0>>)
    ELSE IF IsInf(a) THEN <<Sign(a[1]) * Sign(b[1]), 0>>
    ELSE Norm(a[1] * b[2], a[2] * b[1])

\* a < b on floats: false when either side is NaN
FLess(a, b) ==
    /\ ~IsNaN(a) /\ ~IsNaN(b)
    /\ a # b
    /\ IF IsInf(a) THEN a = NegInf
       ELSE IF IsInf(b) THEN b = PosInf
       ELSE a[1] * b[2] < b[1] * a[2]

\* a == b on floats: NaN equals nothing
FEq(a, b) == ~IsNaN(a) /\ ~IsNaN(b) /\ a = b

FLeq(a, b) == FLess(a, b) \/ FEq(a, b)

RECURSIVE FSum(_)
FSum(s) == IF s = <<>> THEN <<0, 1>> ELSE FAdd(FSum(SubSeq(s, 1, Len(s) - 1)), s[Len(s)])

\* elementwise operations on numpy arrays
ArrRecip(v) == [i \in 1..Len(v) |-> NpDiv(<<1, 1>>, v[i])]
ArrAddScalar(v, c) == [i \in 1..Len(v) |-> FAdd(v[i], c)]
ArrSquare(v) == [i \in 1..Len(v) |-> FMul(v[i], v[i])]
ArrDot(v, w) == FSum([i \in 1..Len(v) |-> FMul(v[i], w[i])])

----------------------------------------------------------------------------
(* Values the callers pass *)

Labels == {"crime", "education"}

Citations == {"Kris et al 2018", "Kris et al 2019"}

\* (effect_size, variance) pairs passed to Outcome(...) and set_estimate
\* one with a positive variance, one with a zero and one with a negative one
Estimates == { <<R(1, 2), R(1, 2)>>, <<R(1, 1), R(0, 1)>>, <<R(2, 1), R(-1, 1)>> }

\* Outcome.__init__'s defaults: effect_size=0.0, variance=float('inf')
DefaultEstimate == <<R(0, 1), PosInf>>

Kinds == {"Outcome", "BinaryOutcome", "ContinuousOutcome"}

SampleSizes == {25}

\* None
None == <<>>

IsNone(x) == x = None

\* the attributes the subclasses' __init__ adds to an outcome; those a class
\* does not have are left None and never read
NoData ==
    [treat_post |-> None, control_post |-> None, treat_pre |-> None, control_pre |-> None,
     treat_post_sd |-> None, control_post_sd |-> None,
     treat_pre_sd |-> None, control_pre_sd |-> None]

\* BinaryOutcome(label, treat_n, control_n, treat_post, control_post,
\*               treat_pre=None, control_pre=None): proportions; a treat_post
\* of 1 leaves no odds to take
BinaryData ==
    { [NoData EXCEPT !.treat_post = tp, !.control_post = R(1, 5),
                     !.treat_pre = pre[1], !.control_pre = pre[2]] :
        tp \in {R(4, 5), R(1, 1)},
        pre \in { <<None, None>>, <<R(1, 2), R(1, 5)>>, <<R(1, 2), None>> } }

\* ContinuousOutcome(label, treat_n, control_n, treat_post, control_post,
\*                   treat_post_sd, control_post_sd, treat_pre=None,
\*                   control_pre=None, treat_pre_sd=None, control_pre_sd=None)
ContinuousData ==
    { [NoData EXCEPT !.treat_post = R(8, 1), !.control_post = R(7, 1),
                     !.treat_post_sd = R(2, 1), !.control_post_sd = R(2, 1),
                     !.treat_pre = pre[1], !.control_pre = pre[2],
                     !.treat_pre_sd = pre[3], !.control_pre_sd = pre[4]] :
        pre \in { <<None, None, None, None>>, <<R(7, 1), R(6, 1), R(1, 1), R(1, 1)>>,
                  <<R(7, 1), R(6, 1), None, R(1, 1)>>, <<None, R(6, 1), R(1, 1), R(1, 1)>> } }

VariantData(kind) == IF kind = "BinaryOutcome" THEN BinaryData ELSE ContinuousData

\* the same with the pre-period arguments left out
PostOnlyData(kind) ==
    { d \in VariantData(kind) :
        /\ IsNone(d.treat_pre) /\ IsNone(d.control_pre)
        /\ IsNone(d.treat_pre_sd) /\ IsNone(d.control_pre_sd)
        /\ d.treat_post # R(1, 1) }

\* (treat_n, control_n) of the outcomes that are estimated
EstimateSizes == { <<3, 3>>, <<4, 2>> }

\* effect sizes passed to ContinuousOutcome.calculate_variance
EffectArgs == { R(0, 1), R(1, 2) }

----------------------------------------------------------------------------
(* The heap *)

OutAddrs   == 1..Len(outObjs)
StudyAddrs == 1..Len(studyObjs)
PoolAddrs  == 1..Len(poolObjs)

\* sequences over S of length lo..hi
SeqsOf(S, lo, hi) == UNION { [1..n -> S] : n \in lo..hi }

RECURSIVE Flatten(_)
Flatten(ss) == IF ss = <<>> THEN <<>> ELSE Flatten(SubSeq(ss, 1, Len(ss) - 1)) \o ss[Len(ss)]

Range(s) == { s[i] : i \in 1..Len(s) }

\* the first index of s whose element satisfies nothing but equality with x
IndexOf(x, s) == CHOOSE i \in 1..Len(s) : s[i] = x /\ \A j \in 1..(i - 1) : s[j] # x

\* s without repetitions, in order of first occurrence
Dedup(s) == SelectSeq([i \in 1..Len(s) |-> IF \A j \in 1..(i - 1) : s[j] # s[i] THEN s[i] ELSE 0],
                      LAMBDA x : x # 0)

RemoveAt(s, i) == SubSeq(s, 1, i - 1) \o SubSeq(s, i + 1, Len(s))

NoCall == [op |-> "none", tkind |-> "none", taddr |-> 0, argS |-> "", argN |-> 0,
           raised |-> "", rkind |-> "none", raddr |-> 0, rnum |-> <<>>, rtag |-> ""]

Call(op, tkind, taddr) == [NoCall EXCEPT !.op = op, !.tkind = tkind, !.taddr = taddr]

----------------------------------------------------------------------------
(* outcomes/Outcome.py *)

\* self.id = 0 + Outcome._outcome_id_tracker
AssignedId(t) == 0 + t

\* the counter left as it was
BumpTrackerStuck(t) == t

\* Outcome._outcome_id_tracker += 1
BumpTracker(t) == t + 1

\* Outcome.__init__ (the subclasses' __init__ call it with the defaults)
NewOutcomeObj(kind, label, tn, cn, est, t) ==
    [id |-> AssignedId(t), kind |-> kind, via |-> "init", label |-> label,
     treat_n |-> tn, control_n |-> cn,
     effect_size |-> est[1], variance |-> est[2], method |-> "custom", data |-> NoData]

\* Outcome(label, treat_n, control_n, effect_size, variance)
OutcomeInit(label, n, est) ==
    /\ outObjs' = Append(outObjs, NewOutcomeObj("Outcome", label, n, n, est, tracker))
    /\ tracker' = BumpTracker(tracker)
    /\ last' = [Call("Outcome", "none", 0) EXCEPT !.rkind = "outcome", !.raddr = Len(outObjs) + 1]
    /\ UNCHANGED <<studyObjs, poolObjs, threadVars>>

\* BinaryOutcome(label, treat_n, control_n, ...), ContinuousOutcome(...)
VariantInit(kind, label, tn, cn, data) ==
    /\ outObjs' = Append(outObjs, [NewOutcomeObj(kind, label, tn, cn, DefaultEstimate, tracker)
                                      EXCEPT !.data = data])
    /\ tracker' = BumpTracker(tracker)
    /\ last' = [Call(kind, "none", 0) EXCEPT !.rkind = "outcome", !.raddr = Len(outObjs) + 1]
    /\ UNCHANGED <<studyObjs, poolObjs, threadVars>>

\* Outcome.set_estimate
SetEstimate(o, est) ==
    /\ outObjs' = [outObjs EXCEPT ![o].effect_size = est[1], ![o].variance = est[2]]
    /\ last' = Call("set_estimate", "outcome", o)
    /\ UNCHANGED <<tracker, studyObjs, poolObjs, threadVars>>

\* equality that looks at the id as well
OutcomeEqWithId(a, b) ==
    /\ a.id = b.id
    /\ a.label = b.label
    /\ FEq(a.effect_size, b.effect_size)
    /\ FEq(a.variance, b.variance)
    /\ a.treat_n = b.treat_n
    /\ a.control_n = b.control_n

\* Outcome.__eq__ on two Outcome instances
OutcomeEq(a, b) ==
    /\ a.label = b.label
    /\ FEq(a.effect_size, b.effect_size)
    /\ FEq(a.variance, b.variance)
    /\ a.treat_n = b.treat_n
    /\ a.control_n = b.control_n

\* Outcome.__ne__ on two Outcome instances: not self.__eq__(other)
OutcomeNe(a, b) == ~OutcomeEq(a, b)

\* the expression x == y
OutcomeEqCall(x, y) ==
    /\ last' = [Call("__eq__", "outcome", x) EXCEPT
                   !.argN = y, !.rkind = "bool",
                   !.rtag = IF OutcomeEq(outObjs[x], outObjs[y]) THEN "True" ELSE "False"]
    /\ UNCHANGED <<tracker, outObjs, studyObjs, poolObjs, threadVars>>

\* the expression x != y
OutcomeNeCall(x, y) ==
    /\ last' = [Call("__ne__", "outcome", x) EXCEPT
                   !.argN = y, !.rkind = "bool",
                   !.rtag = IF OutcomeNe(outObjs[x], outObjs[y]) THEN "True" ELSE "False"]
    /\ UNCHANGED <<tracker, outObjs, studyObjs, poolObjs, threadVars>>

\* copy.deepcopy of one outcome: every field, the id included
CopiedOutcome(rec) == [rec EXCEPT !.via = "copy"]

\* Outcome.copy
OutcomeCopy(o) ==
    /\ outObjs' = Append(outObjs, CopiedOutcome(outObjs[o]))
    /\ last' = [Call("Outcome.copy", "outcome", o) EXCEPT !.rkind = "outcome", !.raddr = Len(outObjs) + 1]
    /\ UNCHANGED <<tracker, studyObjs, poolObjs, threadVars>>

\* isinstance(other, self.__class__) and self.label == other.label: otherwise
\* __add__ returns NotImplemented and, no __radd__ being defined, the
\* expression raises TypeError
AddImplemented(a, b) == (a.kind = "Outcome" \/ a.kind = b.kind) /\ a.label = b.label

\* the float divisions of __add__ raise ZeroDivisionError on a zero divisor
AddDividesByZero(a, b) ==
    IsZero(a.variance) \/ IsZero(b.variance) \/ IsZero(FAdd(a.variance, b.variance))

AddEffectSize(a, b) ==
    NpDiv(FAdd(FMul(a.effect_size, NpDiv(<<1, 1>>, a.variance)),
               FMul(b.effect_size, NpDiv(<<1, 1>>, b.variance))),
          FAdd(a.variance, b.variance))

\* Outcome.__add__
OutcomeAdd(x, y) ==
    LET a == outObjs[x]
        b == outObjs[y]
        c == Call("__add__", "outcome", x)
    IN  /\ IF ~AddImplemented(a, b)
           THEN /\ last' = [c EXCEPT !.argN = y, !.raised = "TypeError"]
                /\ UNCHANGED <<tracker, outObjs>>
           ELSE IF AddDividesByZero(a, b)
           THEN /\ last' = [c EXCEPT !.argN = y, !.raised = "ZeroDivisionError"]
                /\ UNCHANGED <<tracker, outObjs>>
           ELSE /\ outObjs' = Append(outObjs,
                       NewOutcomeObj("Outcome", a.label, a.treat_n + b.treat_n,
                                     a.control_n + b.control_n,
                                     <<AddEffectSize(a, b), FAdd(a.variance, b.variance)>>,
                                     tracker))
                /\ tracker' = BumpTracker(tracker)
                /\ last' = [c EXCEPT !.argN = y, !.rkind = "outcome", !.raddr = Len(outObjs) + 1]
        /\ UNCHANGED <<studyObjs, poolObjs, threadVars>>

----------------------------------------------------------------------------
(* outcomes/BinaryOutcome.py and outcomes/ContinuousOutcome.py

   math.log, math.pi and math.sqrt are kept exact by the choice of units and
   of arguments: the proportions passed give odds ratios that are powers of
   4, and a logit is held in units of ln 4, a binary outcome's effect size
   in units of ln(4)*sqrt(3)/pi and its variance in units of 3/pi^2; the
   pooled variances passed to math.sqrt are squares of rationals. *)

\* the first exception raised by a sequence of steps, "" when none raises
RECURSIVE FirstError(_)
FirstError(errs) ==
    IF errs = <<>> THEN ""
    ELSE IF Head(errs) # "" THEN Head(errs)
    ELSE FirstError(Tail(errs))

\* math.log of a positive power of 4, in units of ln 4
RECURSIVE Log4(_)
Log4(r) ==
    IF r = R(1, 1) THEN 0
    ELSE IF r[1] > r[2] THEN 1 + Log4(Norm(r[1], 4 * r[2]))
    ELSE Log4(Norm(4 * r[1], r[2])) - 1

\* math.sqrt of the square of a rational
SqrtNat(n) == CHOOSE k \in 0..n : k * k = n

Sqrt(r) == <<SqrtNat(r[1]), SqrtNat(r[2])>>

\* adjustment = 1 - 3 / (4 * (self.treat_n + self.control_n) - 9)
Adjustment(o) == FSub(R(1, 1), NpDiv(R(3, 1), R(4 * (o.treat_n + o.control_n) - 9, 1)))

\* BinaryOutcome.make_logit: what it raises
MakeLogitError(tp, cp) ==
    IF IsNone(tp) \/ IsNone(cp) THEN "TypeError"
    ELSE IF IsZero(FMul(cp, FSub(R(1, 1), tp))) THEN "ZeroDivisionError"
    ELSE IF ~FLess(R(0, 1), NpDiv(FMul(tp, FSub(R(1, 1), cp)), FMul(cp, FSub(R(1, 1), tp))))
         THEN "ValueError"
    ELSE ""

\* BinaryOutcome.make_logit
MakeLogit(tp, cp) ==
    LET odds_numerator   == FMul(tp, FSub(R(1, 1), cp))
        odds_denominator == FMul(cp, FSub(R(1, 1), tp))
    IN  R(Log4(NpDiv(odds_numerator, odds_denominator)), 1)

\* BinaryOutcome.transform_logit
TransformLogit(o, logit) == FMul(logit, Adjustment(o))

\* BinaryOutcome.calculate_variance: what it raises
BinaryVarianceError(tp, cp) ==
    IF IsNone(tp) \/ IsNone(cp) THEN "TypeError"
    ELSE IF IsZero(tp) \/ IsZero(FSub(R(1, 1), tp)) \/ IsZero(cp) \/ IsZero(FSub(R(1, 1), cp))
         THEN "ZeroDivisionError"
    ELSE ""

\* BinaryOutcome.calculate_variance
BinaryVariance(tp, cp) ==
    LET o1 == NpDiv(R(1, 1), tp)
        o2 == NpDiv(R(1, 1), FSub(R(1, 1), tp))
        o3 == NpDiv(R(1, 1), cp)
        o4 == NpDiv(R(1, 1), FSub(R(1, 1), cp))
    IN  FAdd(FAdd(FAdd(o1, o2), o3), o4)

\* ContinuousOutcome.calculate_pooled_sd: the pooled variance
PooledVar(o, treat_sd, control_sd) ==
    LET term1 == FMul(R(o.treat_n - 1, 1), FMul(treat_sd, treat_sd))
        term2 == FMul(R(o.control_n - 1, 1), FMul(control_sd, control_sd))
        term3 == R(o.treat_n + o.control_n - 2, 1)
    IN  NpDiv(FAdd(term1, term2), term3)

\* ContinuousOutcome.calculate_pooled_sd: what it raises
PooledSdError(o, treat_sd, control_sd) ==
    IF IsNone(treat_sd) \/ IsNone(control_sd) THEN "TypeError"
    ELSE IF o.treat_n + o.control_n - 2 = 0 THEN "ZeroDivisionError"
    ELSE IF FLess(PooledVar(o, treat_sd, control_sd), R(0, 1)) THEN "ValueError"
    ELSE ""

\* ContinuousOutcome.calculate_pooled_sd
PooledSd(o, treat_sd, control_sd) == Sqrt(PooledVar(o, treat_sd, control_sd))

\* ContinuousOutcome.calculate_smd: what it raises
SmdError(treat_mean, control_mean, pooled_sd) ==
    IF IsNone(treat_mean) \/ IsNone(control_mean) THEN "TypeError"
    ELSE IF IsZero(pooled_sd) THEN "ZeroDivisionError"
    ELSE ""

\* ContinuousOutcome.calculate_smd
Smd(o, treat_mean, control_mean, pooled_sd) ==
    FMul(NpDiv(FSub(treat_mean, control_mean), pooled_sd), Adjustment(o))

\* ContinuousOutcome.calculate_variance: what it raises
ContinuousVarianceError(o) ==
    IF o.treat_n = 0 \/ 2 * (o.treat_n + o.control_n) = 0 THEN "ZeroDivisionError" ELSE ""

\* term1 = self.treat_n + self.control_n / self.treat_n*self.control_n
VarianceTerm1(o) ==
    FAdd(R(o.treat_n, 1), FMul(NpDiv(R(o.control_n, 1), R(o.treat_n, 1)), R(o.control_n, 1)))

\* ContinuousOutcome.calculate_variance
ContinuousVariance(o, effect_size) ==
    LET term1 == VarianceTerm1(o)
        term2 == FMul(effect_size, effect_size)
        term3 == R(2 * (o.treat_n + o.control_n), 1)
    IN  FAdd(term1, NpDiv(term2, term3))

\* estimate, one period: the exception raised by computing the effect size
\* and the variance from the period's inputs, in the order of the statements
PeriodError(o, treat, control, treat_sd, control_sd) ==
    IF o.kind = "BinaryOutcome"
    THEN FirstError(<<MakeLogitError(treat, control), BinaryVarianceError(treat, control)>>)
    ELSE IF PooledSdError(o, treat_sd, control_sd) # "" THEN PooledSdError(o, treat_sd, control_sd)
    ELSE FirstError(<<SmdError(treat, control, PooledSd(o, treat_sd, control_sd)),
                      ContinuousVarianceError(o)>>)

\* estimate, one period: the effect size
PeriodEffect(o, treat, control, treat_sd, control_sd) ==
    IF o.kind = "BinaryOutcome"
    THEN TransformLogit(o, MakeLogit(treat, control))
    ELSE Smd(o, treat, control, PooledSd(o, treat_sd, control_sd))

\* estimate, one period: the variance
PeriodVariance(o, treat, control, treat_sd, control_sd) ==
    IF o.kind = "BinaryOutcome"
    THEN BinaryVariance(treat, control)
    ELSE ContinuousVariance(o, PeriodEffect(o, treat, control, treat_sd, control_sd))

PostError(o) ==
    PeriodError(o, o.data.treat_post, o.data.control_post, o.data.treat_post_sd, o.data.control_post_sd)

PostEffect(o) ==
    PeriodEffect(o, o.data.treat_post, o.data.control_post, o.data.treat_post_sd, o.data.control_post_sd)

PostVariance(o) ==
    PeriodVariance(o, o.data.treat_post, o.data.control_post, o.data.treat_post_sd, o.data.control_post_sd)

\* the pre-period statements run inside "try: ... except ReferenceError":
\* what they raise is not a ReferenceError and passes through
PreError(o) ==
    PeriodError(o, o.data.treat_pre, o.data.control_pre, o.data.treat_pre_sd, o.data.control_pre_sd)

PreEffect(o) ==
    PeriodEffect(o, o.data.treat_pre, o.data.control_pre, o.data.treat_pre_sd, o.data.control_pre_sd)

PreVariance(o) ==
    PeriodVariance(o, o.data.treat_pre, o.data.control_pre, o.data.treat_pre_sd, o.data.control_pre_sd)

\* self.method = 'logit_post' / 'SMD_post'
PostTag(kind) == IF kind = "BinaryOutcome" THEN "logit_post" ELSE "SMD_post"

\* self.method = 'logit_gains' / 'SMD_gains'
GainsTag(kind) == IF kind = "BinaryOutcome" THEN "logit_gains" ELSE "SMD_gains"

\* the pre-period effect size added
GainsEffectAdded(post, pre) == FAdd(post, pre)

\* effect_size -= (the pre-period effect size)
GainsEffect(post, pre) == FSub(post, pre)

\* variance += (the pre-period variance)
GainsVariance(post, pre) == FAdd(post, pre)

\* BinaryOutcome.estimate, ContinuousOutcome.estimate: no return statement,
\* the call evaluates to None
Estimate(o, use_pre) ==
    LET rec == outObjs[o]
        c   == [Call("estimate", "outcome", o) EXCEPT !.argS = IF use_pre THEN "use_pre" ELSE ""]
    IN  /\ rec.kind # "Outcome"
        /\ IF PostError(rec) # ""
           THEN /\ last' = [c EXCEPT !.raised = PostError(rec)]
                /\ UNCHANGED outObjs
           ELSE IF use_pre /\ PreError(rec) # ""
           THEN /\ last' = [c EXCEPT !.raised = PreError(rec)]
                /\ outObjs' = [outObjs EXCEPT ![o].method = PostTag(rec.kind)]
           ELSE IF use_pre
           THEN /\ last' = c
                /\ outObjs' = [outObjs EXCEPT
                                 ![o].method = GainsTag(rec.kind),
                                 ![o].effect_size = GainsEffect(PostEffect(rec), PreEffect(rec)),
                                 ![o].variance = GainsVariance(PostVariance(rec), PreVariance(rec))]
           ELSE /\ last' = c
                /\ outObjs' = [outObjs EXCEPT
                                 ![o].method = PostTag(rec.kind),
                                 ![o].effect_size = PostEffect(rec),
                                 ![o].variance = PostVariance(rec)]
        /\ UNCHANGED <<tracker, studyObjs, poolObjs, threadVars>>

\* a call of ContinuousOutcome.calculate_variance(effect_size)
CalculateVariance(o, effect_size) ==
    LET rec == outObjs[o]
        c   == Call("ContinuousOutcome.calculate_variance", "outcome", o)
    IN  /\ rec.kind = "ContinuousOutcome"
        /\ last' = IF ContinuousVarianceError(rec) # ""
                   THEN [c EXCEPT !.raised = ContinuousVarianceError(rec), !.rnum = <<effect_size>>]
                   ELSE [c EXCEPT !.rkind = "num", !.rnum = <<ContinuousVariance(rec, effect_size), effect_size>>]
        /\ UNCHANGED <<tracker, outObjs, studyObjs, poolObjs, threadVars>>

\* ContinuousOutcome.get_pre_mean
GetPreMean(o) ==
    /\ outObjs[o].kind = "ContinuousOutcome"
    /\ last' = [Call("get_pre_mean", "outcome", o) EXCEPT
                   !.rkind = "pair",
                   !.rnum = <<outObjs[o].data.treat_pre, outObjs[o].data.control_pre>>]
    /\ UNCHANGED <<tracker, outObjs, studyObjs, poolObjs, threadVars>>

\* ContinuousOutcome.set_pre_sd; the record of the call keeps the arguments
SetPreSd(o, treat_pre_sd, control_pre_sd) ==
    /\ outObjs[o].kind = "ContinuousOutcome"
    /\ outObjs' = [outObjs EXCEPT ![o].data.treat_pre = treat_pre_sd,
                                  ![o].data.control_pre = control_pre_sd]
    /\ last' = [Call("set_pre_sd", "outcome", o) EXCEPT
                   !.rnum = <<treat_pre_sd, control_pre_sd>>]
    /\ UNCHANGED <<tracker, studyObjs, poolObjs, threadVars>>

\* ContinuousOutcome.get_pre_sd
GetPreSd(o) ==
    /\ outObjs[o].kind = "ContinuousOutcome"
    /\ last' = [Call("get_pre_sd", "outcome", o) EXCEPT
                   !.rkind = "pair",
                   !.rnum = <<outObjs[o].data.treat_pre_sd, outObjs[o].data.control_pre_sd>>]
    /\ UNCHANGED <<tracker, outObjs, studyObjs, poolObjs, threadVars>>

-----------------------------------------------------------------------------
(* copy.deepcopy of a list of studies *)

\* the distinct studies of a list, in order of first occurrence
CopiedStudies(ss) == Dedup(ss)

\* the distinct outcomes the studies of a list hold, in order of first occurrence
CopiedOutcomes(ss) ==
    Dedup(Flatten([i \in 1..Len(ss) |-> studyObjs[ss[i]].outcomes]))

\* no copy made: the object itself
CopyAddrShared(a, olds, base) == a

\* deepcopy's memo: the address of the copy of object a, the k-th distinct
\* object met, when the heap held base objects before
CopyAddr(a, olds, base) == base + IndexOf(a, olds)

\* the heap of outcomes after deep-copying the outcomes olds
OutHeapWithCopies(olds) ==
    outObjs \o [i \in 1..Len(olds) |-> CopiedOutcome(outObjs[olds[i]])]

\* the copy of a study whose outcome list is outs
CopiedStudy(citation, outs, olds) ==
    [citation |-> citation,
     outcomes |-> [j \in 1..Len(outs) |-> CopyAddr(outs[j], olds, Len(outObjs))]]

\* the heap of studies after deep-copying the list ss
StudyHeapWithCopies(ss) ==
    LET ds   == CopiedStudies(ss)
        olds == CopiedOutcomes(ds)
    IN  studyObjs \o [i \in 1..Len(ds) |->
            CopiedStudy(studyObjs[ds[i]].citation, studyObjs[ds[i]].outcomes, olds)]

\* the copied list itself
CopiedStudyList(ss) ==
    [i \in 1..Len(ss) |-> CopyAddr(ss[i], CopiedStudies(ss), Len(studyObjs))]

----------------------------------------------------------------------------
(* Study.py *)

\* Study(note, citation, outcomes=[...])
StudyInit(citation, outs) ==
    /\ studyObjs' = Append(studyObjs, [citation |-> citation, outcomes |-> outs])
    /\ last' = [Call("Study", "none", 0) EXCEPT !.rkind = "study", !.raddr = Len(studyObjs) + 1]
    /\ UNCHANGED <<tracker, outObjs, poolObjs, threadVars>>

\* Study.append_outcome
AppendOutcome(s, o) ==
    /\ studyObjs' = [studyObjs EXCEPT ![s].outcomes = Append(@, o)]
    /\ last' = [Call("append_outcome", "study", s) EXCEPT !.argN = o]
    /\ UNCHANGED <<tracker, outObjs, poolObjs, threadVars>>

\* for outcome in study.outcomes: if outcome.id == outcome_id: the index of
\* the first outcome of the list holding the id, 0 when none does
FindById(outs, id) ==
    IF \E i \in 1..Len(outs) : outObjs[outs[i]].id = id
    THEN CHOOSE i \in 1..Len(outs) :
            /\ outObjs[outs[i]].id = id
            /\ \A j \in 1..(i - 1) : outObjs[outs[j]].id # id
    ELSE 0

\* list.remove(x): the index of the first element that is x or == x
ListRemoveIndex(outs, k) ==
    CHOOSE j \in 1..Len(outs) :
        /\ (outs[j] = outs[k] \/ OutcomeEq(outObjs[outs[j]], outObjs[outs[k]]))
        /\ \A i \in 1..(j - 1) :
              ~(outs[i] = outs[k] \/ OutcomeEq(outObjs[outs[i]], outObjs[outs[k]]))

\* nothing raised, as get_outcome_by_id does on an id it does not find
OutcomeNotFoundSilent == ""

\* raise ValueError('Outcome ID not found'), after remove_outcome's loop
OutcomeNotFound == "ValueError"

\* Study.remove_outcome: the copy's outcome list after the removal, in terms
\* of the original's outcomes
OutcomesAfterRemove(outs, id) == RemoveAt(outs, ListRemoveIndex(outs, FindById(outs, id)))

\* Study.remove_outcome.  Of the deep copy, the objects the returned study
\* holds are allocated; the removed outcome's copy is garbage.
RemoveOutcome(s, id) ==
    LET outs == studyObjs[s].outcomes
        c    == [Call("remove_outcome", "study", s) EXCEPT !.argN = id]
    IN  IF FindById(outs, id) = 0
        THEN /\ last' = [c EXCEPT !.raised = OutcomeNotFound]
             /\ UNCHANGED <<tracker, outObjs, studyObjs, poolObjs, threadVars>>
        ELSE LET kept == OutcomesAfterRemove(outs, id)
                 olds == Dedup(kept)
             IN  /\ outObjs' = OutHeapWithCopies(olds)
                 /\ studyObjs' = Append(studyObjs, CopiedStudy(studyObjs[s].citation, kept, olds))
                 /\ last' = [c EXCEPT !.rkind = "study", !.raddr = Len(studyObjs) + 1]
                 /\ UNCHANGED <<tracker, poolObjs, threadVars>>

\* Study.get_outcome_by_id: the outcome itself, or False
GetOutcomeById(s, id) ==
    LET outs == studyObjs[s].outcomes
        k    == FindById(outs, id)
        c    == [Call("get_outcome_by_id", "study", s) EXCEPT !.argN = id]
    IN  /\ last' = IF k = 0
                   THEN [c EXCEPT !.rkind = "bool", !.rtag = "False"]
                   ELSE [c EXCEPT !.rkind = "outcome", !.raddr = outs[k]]
        /\ UNCHANGED <<tracker, outObjs, studyObjs, poolObjs, threadVars>>

\* Study.copy
StudyCopy(s) ==
    LET olds == CopiedOutcomes(<<s>>)
    IN  /\ outObjs' = OutHeapWithCopies(olds)
        /\ studyObjs' = StudyHeapWithCopies(<<s>>)
        /\ last' = [Call("Study.copy", "study", s) EXCEPT !.rkind = "study", !.raddr = Len(studyObjs) + 1]
        /\ UNCHANGED <<tracker, poolObjs, threadVars>>

----------------------------------------------------------------------------
(* StudyPool.py *)

\* every outcome of the studies, whatever its label
MatchingAnyLabel(studs, label) ==
    Flatten([i \in 1..Len(studs) |-> studyObjs[studs[i]].outcomes])

\* the outcomes of the studies of a list, in study order and then outcome
\* order, that carry the label
Matching(studs, label) ==
    SelectSeq(Flatten([i \in 1..Len(studs) |-> studyObjs[studs[i]].outcomes]),
              LAMBDA a : outObjs[a].label = label)

\* StudyPool.set_outcome's two loops: effect_sizes and variances
CollectEffectSizes(studs, label) ==
    LET m == Matching(studs, label) IN [i \in 1..Len(m) |-> outObjs[m[i]].effect_size]

CollectVariances(studs, label) ==
    LET m == Matching(studs, label) IN [i \in 1..Len(m) |-> outObjs[m[i]].variance]

\* the pool after set_outcome(label)
Registered(pool, label) ==
    [pool EXCEPT !.outcome_label = label,
                 !.effect_sizes = CollectEffectSizes(pool.studies, label),
                 !.variances = CollectVariances(pool.studies, label)]

\* the pool __init__ builds before it registers a label
FreshPool(studs, label) ==
    [studies |-> studs, outcome_label |-> label, effect_sizes |-> <<>>, variances |-> <<>>]

\* StudyPool(studies, outcome_label)
PoolInit(studs, label) ==
    LET c == [Call("StudyPool", "none", 0) EXCEPT !.argS = label]
    IN  /\ IF Len(studs) < 2
           THEN /\ last' = [c EXCEPT !.raised = "AssertionError"]
                /\ UNCHANGED poolObjs
           ELSE /\ poolObjs' = Append(poolObjs,
                       IF label # "" THEN Registered(FreshPool(studs, label), label)
                       ELSE FreshPool(studs, label))
                /\ last' = [c EXCEPT !.rkind = "pool", !.raddr = Len(poolObjs) + 1]
        /\ UNCHANGED <<tracker, outObjs, studyObjs, threadVars>>

\* the pool after append_study(study)
WithStudy(pool, s) == [pool EXCEPT !.studies = Append(@, s)]

\* StudyPool.append_study
AppendStudy(p, s) ==
    /\ poolObjs' = [poolObjs EXCEPT ![p] = WithStudy(@, s)]
    /\ last' = [Call("append_study", "pool", p) EXCEPT !.argN = s]
    /\ UNCHANGED <<tracker, outObjs, studyObjs, threadVars>>

\* StudyPool.set_outcome
SetOutcome(p, label) ==
    /\ poolObjs' = [poolObjs EXCEPT ![p] = Registered(@, label)]
    /\ last' = [Call("set_outcome", "pool", p) EXCEPT !.argS = label]
    /\ UNCHANGED <<tracker, outObjs, studyObjs, threadVars>>

\* for study in study_pool.studies: if study.citation == citation: the
\* index of the first such study, 0 when there is none
FindByCitation(studs, citation) ==
    IF \E i \in 1..Len(studs) : studyObjs[studs[i]].citation = citation
    THEN CHOOSE i \in 1..Len(studs) :
            /\ studyObjs[studs[i]].citation = citation
            /\ \A j \in 1..(i - 1) : studyObjs[studs[j]].citation # citation
    ELSE 0

\* raise ValueError('Outcome ID not found'), after remove_study's loop
StudyNotFound == "ValueError"

\* what remove_study returns when it finds the citation: "return study"
RemoveStudyReturns == "study"

\* StudyPool.remove_study.  The deep copy of the pool, from which the study
\* is removed and on which the label is registered again, is dropped when
\* the call returns; the study it returns, a copy, is allocated.
RemoveStudy(p, citation) ==
    LET studs == poolObjs[p].studies
        k     == FindByCitation(studs, citation)
        c     == [Call("remove_study", "pool", p) EXCEPT !.argS = citation]
    IN  IF k = 0
        THEN /\ last' = [c EXCEPT !.raised = StudyNotFound]
             /\ UNCHANGED <<tracker, outObjs, studyObjs, poolObjs, threadVars>>
        ELSE LET olds == CopiedOutcomes(<<studs[k]>>)
             IN  /\ outObjs' = OutHeapWithCopies(olds)
                 /\ studyObjs' = StudyHeapWithCopies(<<studs[k]>>)
                 /\ last' = [c EXCEPT !.rkind = RemoveStudyReturns, !.raddr = Len(studyObjs) + 1]
                 /\ UNCHANGED <<tracker, poolObjs, threadVars>>

\* StudyPool.copy
PoolCopy(p, full) ==
    LET studs == poolObjs[p].studies
        olds  == CopiedOutcomes(CopiedStudies(studs))
        c     == [Call("StudyPool.copy", "pool", p) EXCEPT !.argS = IF full THEN "full" ELSE ""]
    IN  /\ outObjs' = OutHeapWithCopies(olds)
        /\ studyObjs' = StudyHeapWithCopies(studs)
        /\ IF full
           THEN /\ poolObjs' = Append(poolObjs, [poolObjs[p] EXCEPT !.studies = CopiedStudyList(studs)])
                /\ last' = [c EXCEPT !.rkind = "pool", !.raddr = Len(poolObjs) + 1]
           ELSE IF Len(studs) < 2
           THEN /\ last' = [c EXCEPT !.raised = "AssertionError"]
                /\ UNCHANGED poolObjs
           ELSE /\ poolObjs' = Append(poolObjs, FreshPool(CopiedStudyList(studs), ""))
                /\ last' = [c EXCEPT !.rkind = "pool", !.raddr = Len(poolObjs) + 1]
        /\ UNCHANGED <<tracker, threadVars>>

----------------------------------------------------------------------------
(* The pooling statistics, computed on the cached arrays *)

\* upper 5% points of the chi-square distribution with 1..12 degrees of
\* freedom, in thousandths
Chi2Crit == <<3841, 5991, 7815, 9488, 11070, 12592, 14067, 15507, 16919, 18307, 19675, 21026>>

\* p = 1 - chi2.cdf(q, dof), as far as the code looks at it: "nan", or on
\* which side of 0.05 it lies.  scipy gives nan for dof <= 0 and for a nan q.
PValue(q, dof) ==
    IF IsNaN(q) \/ dof <= 0 THEN "nan"
    ELSE IF q = PosInf THEN "p<0.05"
    ELSE IF q = NegInf THEN "p>=0.05"
    ELSE IF q[1] * 1000 > Chi2Crit[dof] * q[2] THEN "p<0.05"
    ELSE "p>=0.05"

\* q with the second term's weighted sum squared
QStatSquared(es, var) ==
    LET ivw       == ArrRecip(var)
        square_es == ArrSquare(es)
    IN  FSub(ArrDot(ivw, square_es),
             NpDiv(FMul(ArrDot(ivw, square_es), ArrDot(ivw, square_es)), FSum(ivw)))

\* StudyPool.calculate_q: q
QStat(es, var) ==
    LET ivw       == ArrRecip(var)
        square_es == ArrSquare(es)
    IN  FSub(ArrDot(ivw, square_es), NpDiv(ArrDot(ivw, square_es), FSum(ivw)))

\* StudyPool.calculate_q: dof
QDof(es) == Len(es) - 1

\* StudyPool.calculate_re
TauSquare(es, var) ==
    LET q                 == QStat(es, var)
        dof               == QDof(es)
        ivw_fe            == ArrRecip(var)
        sum_ivw_fe        == FSum(ivw_fe)
        sum_ivw_fe_square == FSum(ArrSquare(ivw_fe))
        tau_square        == NpDiv(FSub(q, R(dof, 1)),
                                   FSub(sum_ivw_fe, NpDiv(sum_ivw_fe_square, sum_ivw_fe)))
    IN  IF FLeq(tau_square, R(0, 1)) THEN R(0, 1) ELSE tau_square

\* the variances the weights are taken of: plus tau-square when method is 're'
MethodVariances(es, var, method) ==
    IF method = "re" THEN ArrAddScalar(var, TauSquare(es, var)) ELSE var

\* StudyPool.calculate_ivw_effect_size
IvwEffectSize(es, var, method) ==
    LET ivw == ArrRecip(MethodVariances(es, var, method))
    IN  NpDiv(ArrDot(ivw, es), FSum(ivw))

\* StudyPool.calculate_variance
PooledVariance(es, var, method) ==
    NpDiv(R(1, 1), FSum(ArrRecip(MethodVariances(es, var, method))))

\* StudyPool.calculate_i_square
ISquare(es, var) ==
    NpDiv(FSub(QStat(es, var), R(QDof(es), 1)), QStat(es, var))

\* 'auto' never testing for heterogeneity
SelectedMethodFixed(es, var, method) == IF method = "auto" THEN "fe" ELSE method

\* StudyPool.meta_analysis: the method used
SelectedMethod(es, var, method) ==
    IF method = "auto"
    THEN (IF PValue(QStat(es, var), QDof(es)) = "p<0.05" THEN "re" ELSE "fe")
    ELSE method

\* StudyPool.meta_analysis
MetaAnalysis(es, var, method) ==
    LET m == SelectedMethod(es, var, method)
    IN  <<IvwEffectSize(es, var, m), PooledVariance(es, var, m)>>

Statistics == {"meta_analysis", "calculate_ivw_effect_size", "calculate_variance",
               "calculate_q", "calculate_re", "calculate_i_square"}

Methods == {"auto", "fe", "re"}

\* what a statistic returns on the pool's cache; none of them raises
StatValue(stat, es, var, method) ==
    CASE stat = "meta_analysis" -> MetaAnalysis(es, var, method)
      [] stat = "calculate_ivw_effect_size" -> <<IvwEffectSize(es, var, method)>>
      [] stat = "calculate_variance" -> <<PooledVariance(es, var, method)>>
      [] stat = "calculate_q" -> <<QStat(es, var), R(QDof(es), 1)>>
      [] stat = "calculate_re" -> <<TauSquare(es, var)>>
      [] stat = "calculate_i_square" -> <<ISquare(es, var)>>

\* the exception a statistic raises on the pool's cache: the divisions are
\* numpy's, which warn and go on
StatRaises(stat, es, var, method) == ""

\* a call of one of the statistics
Stat(p, stat, method) ==
    LET es  == poolObjs[p].effect_sizes
        var == poolObjs[p].variances
        c   == [Call(stat, "pool", p) EXCEPT !.argS = method]
    IN  /\ stat \in {"calculate_q", "calculate_re", "calculate_i_square"} => method = "fe"
        /\ stat \in {"calculate_ivw_effect_size", "calculate_variance"} => method # "auto"
        /\ last' = IF StatRaises(stat, es, var, method) # ""
                   THEN [c EXCEPT !.raised = StatRaises(stat, es, var, method)]
                   ELSE [c EXCEPT !.rkind = "num",
                                  !.rnum = StatValue(stat, es, var, method),
                                  !.rtag = IF stat = "calculate_q"
                                           THEN PValue(QStat(es, var), QDof(es)) ELSE ""]
        /\ UNCHANGED <<tracker, outObjs, studyObjs, poolObjs, threadVars>>

----------------------------------------------------------------------------
(* Outcome.__init__ run by several threads: the statements
     self.id = 0 + Outcome._outcome_id_tracker
     Outcome._outcome_id_tracker += 1
   are a read of the counter, and a read, an addition and a write of it;
   threads may be switched between any two of them. *)

Threads == 1..NumThreads

\* self.id = 0 + Outcome._outcome_id_tracker
TReadId(t) ==
    /\ tpc[t] = "assign"
    /\ tdone[t] < PerThread
    /\ tid' = [tid EXCEPT ![t] = Append(@, AssignedId(tracker))]
    /\ tpc' = [tpc EXCEPT ![t] = "load"]
    /\ UNCHANGED <<tracker, tload, tdone, heapVars>>

\* += : load the counter
TLoad(t) ==
    /\ tpc[t] = "load"
    /\ tload' = [tload EXCEPT ![t] = tracker]
    /\ tpc' = [tpc EXCEPT ![t] = "store"]
    /\ UNCHANGED <<tracker, tid, tdone, heapVars>>

\* += : add one and store
TStore(t) ==
    /\ tpc[t] = "store"
    /\ tracker' = BumpTracker(tload[t])
    /\ tpc' = [tpc EXCEPT ![t] = "assign"]
    /\ tdone' = [tdone EXCEPT ![t] = @ + 1]
    /\ UNCHANGED <<tid, tload, heapVars>>

----------------------------------------------------------------------------
(* Specifications *)

ThreadsIdle ==
    /\ tpc = [t \in Threads |-> "assign"]
    /\ tid = [t \in Threads |-> <<>>]
    /\ tload = [t \in Threads |-> 0]
    /\ tdone = [t \in Threads |-> 0]

\* the state when the module has been imported
InitEmpty ==
    /\ tracker = 0
    /\ outObjs = <<>>
    /\ studyObjs = <<>>
    /\ poolObjs = <<>>
    /\ last = NoCall
    /\ calls = 0
    /\ ThreadsIdle

\* the state after a set-up like the unit tests':
\*   o1 = Outcome('crime', ...); o2 = Outcome(...); o3 = Outcome(...)
\*   s1 = Study(note, 'Kris et al 2019', outcomes=[o1, o2])
\*   s2 = Study(note, c2, outcomes=[o3])
\*   pool = StudyPool([s1, s2], outcome_label=l)      (l may be left out)
Init ==
    \E n \in SampleSizes, e1 \in {<<R(1, 2), R(1, 2)>>}, l2 \in Labels, e2 \in Estimates,
       l3 \in Labels, e3 \in Estimates, c2 \in Citations, l \in {"crime", ""} :
        /\ tracker = BumpTracker(BumpTracker(BumpTracker(0)))
        /\ outObjs = << NewOutcomeObj("Outcome", "crime", n, n, e1, 0),
                        NewOutcomeObj("Outcome", l2, n, n, e2, BumpTracker(0)),
                        NewOutcomeObj("Outcome", l3, n, n, e3, BumpTracker(BumpTracker(0))) >>
        /\ studyObjs = << [citation |-> "Kris et al 2019", outcomes |-> <<1, 2>>],
                          [citation |-> c2, outcomes |-> <<3>>] >>
        /\ poolObjs = << IF l # "" THEN Registered(FreshPool(<<1, 2>>, l), l)
                         ELSE FreshPool(<<1, 2>>, l) >>
        /\ last = NoCall
        /\ calls = 0
        /\ ThreadsIdle

\* a call, counted
Counted(limit) == calls < limit /\ calls' = calls + 1

\* one call on the objects of the heap
Next ==
    \/ \E l \in Labels, n \in SampleSizes, e \in Estimates : Counted(MaxCalls) /\ OutcomeInit(l, n, e)
    \/ \E o \in OutAddrs, e \in Estimates : Counted(MaxCalls) /\ SetEstimate(o, e)
    \/ \E o \in OutAddrs : Counted(MaxCalls) /\ OutcomeCopy(o)
    \/ \E c \in Citations, outs \in SeqsOf(OutAddrs, 0, MaxOutcomeArgs) : Counted(MaxCalls) /\ StudyInit(c, outs)
    \/ \E s \in StudyAddrs, o \in OutAddrs : Counted(MaxCalls) /\ AppendOutcome(s, o)
    \/ \E s \in StudyAddrs, id \in 0..tracker : Counted(MaxCalls) /\ RemoveOutcome(s, id)
    \/ \E s \in StudyAddrs : Counted(MaxCalls) /\ StudyCopy(s)
    \/ \E s \in StudyAddrs, id \in 0..tracker : Counted(MaxCalls) /\ GetOutcomeById(s, id)
    \/ \E studs \in SeqsOf(StudyAddrs, 1, MaxStudyArgs), l \in Labels \cup {""} : Counted(MaxCalls) /\ PoolInit(studs, l)
    \/ \E p \in PoolAddrs, s \in StudyAddrs : Counted(MaxCalls) /\ AppendStudy(p, s)
    \/ \E p \in PoolAddrs, l \in Labels : Counted(MaxCalls) /\ SetOutcome(p, l)
    \/ \E p \in PoolAddrs, c \in Citations : Counted(MaxCalls) /\ RemoveStudy(p, c)
    \/ \E p \in PoolAddrs, full \in BOOLEAN : Counted(MaxCalls) /\ PoolCopy(p, full)
    \/ \E p \in PoolAddrs, st \in Statistics, m \in Methods : Counted(MaxCalls) /\ Stat(p, st, m)

Spec == Init /\ [][Next]_vars

\* outcomes of every variant constructed, combined and copied
NextOutcome ==
    \/ \E l \in Labels, n \in SampleSizes, e \in Estimates : Counted(MaxCtorCalls) /\ OutcomeInit(l, n, e)
    \/ \E k \in Kinds \ {"Outcome"}, l \in Labels, n \in SampleSizes : \E d \in PostOnlyData(k) :
          Counted(MaxCtorCalls) /\ VariantInit(k, l, n, n, d)
    \/ \E x \in OutAddrs, y \in OutAddrs : Counted(MaxCtorCalls) /\ OutcomeAdd(x, y)
    \/ \E o \in OutAddrs : Counted(MaxCtorCalls) /\ OutcomeCopy(o)

SpecOutcome == InitEmpty /\ [][NextOutcome]_vars

\* outcomes constructed by several threads
NextThreads == \E t \in Threads : TReadId(t) \/ TLoad(t) \/ TStore(t)

SpecThreads == InitEmpty /\ [][NextThreads]_vars

----------------------------------------------------------------------------
(* What the properties speak of *)

\* the outcomes with the label met from position (i, j) on, by the two loops
\* of a scan: i runs over the pool's studies, j over the study's outcomes
RECURSIVE ScanFrom(_, _, _, _)
ScanFrom(studs, label, i, j) ==
    IF i > Len(studs) THEN <<>>
    ELSE IF j > Len(studyObjs[studs[i]].outcomes) THEN ScanFrom(studs, label, i + 1, 1)
    ELSE LET a == studyObjs[studs[i]].outcomes[j]
         IN  (IF outObjs[a].label = label THEN <<a>> ELSE <<>>)
                 \o ScanFrom(studs, label, i, j + 1)

\* the pool's cache holds, index by index, the effect size and the variance
\* of the outcomes that carry its label now
CacheCurrent(pool) ==
    LET m == ScanFrom(pool.studies, pool.outcome_label, 1, 1)
    IN  /\ Len(pool.effect_sizes) = Len(m)
        /\ Len(pool.variances) = Len(m)
        /\ \A i \in 1..Len(m) :
              /\ pool.effect_sizes[i] = outObjs[m[i]].effect_size
              /\ pool.variances[i] = outObjs[m[i]].variance

----------------------------------------------------------------------------
(* C1 *)

\* C1: after set_outcome(L), and after StudyPool(studies, L) with a label,
\* outcome_label is L and effect_sizes and variances hold, in study order and
\* then outcome order, the effect size and variance of exactly the outcomes
\* labelled L; the two have the same length
C1_SetOutcomeCaches ==
    /\ (last.op = "set_outcome" /\ last.raised = "")
          => /\ poolObjs[last.taddr].outcome_label = last.argS
             /\ CacheCurrent(poolObjs[last.taddr])
    /\ (last.op = "StudyPool" /\ last.raised = "" /\ last.argS # "")
          => /\ poolObjs[last.raddr].outcome_label = last.argS
             /\ CacheCurrent(poolObjs[last.raddr])
    /\ \A p \in PoolAddrs : Len(poolObjs[p].effect_sizes) = Len(poolObjs[p].variances)

\* C1's case: a label registered on a pool whose two studies both hold an
\* outcome with it, with different values, and that holds another label too
C1_Witness ==
    /\ last.op = "set_outcome"
    /\ LET pool == poolObjs[last.taddr]
       IN  /\ Len(pool.effect_sizes) = 2
           /\ pool.effect_sizes[1] # pool.effect_sizes[2]
           /\ \A i \in 1..Len(pool.studies) :
                 \E j \in 1..Len(studyObjs[pool.studies[i]].outcomes) :
                    outObjs[studyObjs[pool.studies[i]].outcomes[j]].label = last.argS
           /\ \E i \in 1..Len(pool.studies) :
                 \E j \in 1..Len(studyObjs[pool.studies[i]].outcomes) :
                    outObjs[studyObjs[pool.studies[i]].outcomes[j]].label # last.argS

----------------------------------------------------------------------------
(* C2 *)

\* C2: the cache a pooling statistic is computed on, for a pool with a
\* registered label, holds the current effect sizes and variances of the
\* outcomes that carry the label now
C2_StatisticOnCurrentCache ==
    (last.op \in Statistics /\ poolObjs[last.taddr].outcome_label # "")
        => CacheCurrent(poolObjs[last.taddr])

----------------------------------------------------------------------------
(* C3 *)

Constructed == { a \in OutAddrs : outObjs[a].via = "init" }

\* C3: each constructed outcome, of any variant or made by +, has an id
\* greater than that of every outcome constructed before it, and the counter
\* is past every id given
C3_IdsIncrease ==
    /\ \A a \in Constructed, b \in Constructed : a < b => outObjs[a].id < outObjs[b].id
    /\ \A a \in OutAddrs : outObjs[a].id < tracker

\* C3's case: outcomes of the three variants constructed, and then one by +
C3_Witness ==
    /\ last.op = "__add__"
    /\ last.rkind = "outcome"
    /\ \A k \in Kinds : \E a \in Constructed : a < last.raddr /\ outObjs[a].kind = k

----------------------------------------------------------------------------
(* C4 *)

\* C4: the ids the threads' constructors assign are all different, and when
\* all have finished the counter has advanced by their number
C4_ThreadIdsDistinct ==
    /\ \A t \in Threads, u \in Threads :
          \A i \in 1..Len(tid[t]), j \in 1..Len(tid[u]) :
             (t # u \/ i # j) => tid[t][i] # tid[u][j]
    /\ (\A t \in Threads : tdone[t] = PerThread) => tracker = NumThreads * PerThread

----------------------------------------------------------------------------
(* C5, C6 *)

\* C5: a statistic asked of a pool whose cache is empty (its label matches no
\* outcome, or none was registered) raises an error
C5_EmptyCacheRaises ==
    (last.op \in Statistics /\ poolObjs[last.taddr].effect_sizes = <<>>)
        => last.raised # ""

DividingStatistics == Statistics \ {"calculate_i_square"}

\* C6: a statistic that divides by the variances raises an error when one of
\* the cached variances is zero or negative
C6_NonPositiveVarianceRaises ==
    (/\ last.op \in DividingStatistics
     /\ \E i \in 1..Len(poolObjs[last.taddr].variances) :
           FLeq(poolObjs[last.taddr].variances[i], R(0, 1)))
        => last.raised # ""

----------------------------------------------------------------------------
(* The values of objects, whatever their addresses *)

\* an outcome's fields
OutVal(a) == [f \in (DOMAIN outObjs[a]) \ {"via"} |-> outObjs[a][f]]

\* a study's citation and the values of its outcomes, in order
StudyVal(s) ==
    [citation |-> studyObjs[s].citation,
     outcomes |-> [j \in 1..Len(studyObjs[s].outcomes) |-> OutVal(studyObjs[s].outcomes[j])]]

\* a pool's label, cache and the values of its studies, in order
PoolVal(p) ==
    [outcome_label |-> poolObjs[p].outcome_label,
     effect_sizes |-> poolObjs[p].effect_sizes,
     variances |-> poolObjs[p].variances,
     studies |-> [i \in 1..Len(poolObjs[p].studies) |-> StudyVal(poolObjs[p].studies[i])]]

ObjVal(kind, a) ==
    CASE kind = "outcome" -> OutVal(a)
      [] kind = "study" -> StudyVal(a)
      [] kind = "pool" -> PoolVal(a)

\* the studies and the outcomes an object holds
StudiesOf(kind, a) == IF kind = "pool" THEN Range(poolObjs[a].studies) ELSE {}

OutcomesOf(kind, a) ==
    CASE kind = "outcome" -> {}
      [] kind = "study" -> Range(studyObjs[a].outcomes)
      [] kind = "pool" -> UNION { Range(studyObjs[s].outcomes) : s \in StudiesOf(kind, a) }

\* object (tkind, t) is object (kind, a) or a part of it
PartOf(tkind, t, kind, a) ==
    \/ tkind = kind /\ t = a
    \/ tkind = "study" /\ t \in StudiesOf(kind, a)
    \/ tkind = "outcome" /\ t \in OutcomesOf(kind, a)

Objects ==
    ({"outcome"} \X OutAddrs) \cup ({"study"} \X StudyAddrs) \cup ({"pool"} \X PoolAddrs)

----------------------------------------------------------------------------
(* C7, C8, C9 *)

IdsOf(outs) == { outObjs[outs[i]].id : i \in 1..Len(outs) }

CitationsOf(studs) == { studyObjs[studs[i]].citation : i \in 1..Len(studs) }

\* C7: remove_outcome with an id no outcome of the study holds, and
\* remove_study with a citation no study of the pool holds, raise ValueError,
\* return nothing and leave every outcome, study and pool as it was
C7_RemoveMissingRaises ==
    [][ calls' = calls + 1 =>
        /\ (/\ last'.op = "remove_outcome"
            /\ last'.argN \notin IdsOf(studyObjs[last'.taddr].outcomes))
              => /\ last'.raised = "ValueError"
                 /\ last'.rkind = "none"
                 /\ UNCHANGED <<outObjs, studyObjs, poolObjs>>
        /\ (/\ last'.op = "remove_study"
            /\ last'.argS \notin CitationsOf(poolObjs[last'.taddr].studies))
              => /\ last'.raised = "ValueError"
                 /\ last'.rkind = "none"
                 /\ UNCHANGED <<outObjs, studyObjs, poolObjs>> ]_vars

\* C7's case: remove_outcome called, on a study that holds outcomes, with an
\* id none of them has
C7_Witness ==
    /\ last.op = "remove_outcome"
    /\ studyObjs[last.taddr].outcomes # <<>>
    /\ last.argN \notin IdsOf(studyObjs[last.taddr].outcomes)

\* the same for remove_study: a citation no study of the pool has
C7_WitnessPool ==
    /\ last.op = "remove_study"
    /\ last.argS \notin CitationsOf(poolObjs[last.taddr].studies)

\* C8: remove_outcome(id), the study holding outcomes of different ids and
\* one of them id, returns a study with no outcome of that id whose outcomes
\* are the others of the original, in the original order
C8_RemoveOutcomeRemovesThatId ==
    (/\ last.op = "remove_outcome"
     /\ last.raised = ""
     /\ Cardinality(IdsOf(studyObjs[last.taddr].outcomes)) = Len(studyObjs[last.taddr].outcomes))
        => /\ last.rkind = "study"
           /\ last.argN \notin IdsOf(studyObjs[last.raddr].outcomes)
           /\ StudyVal(last.raddr).outcomes
                 = SelectSeq(StudyVal(last.taddr).outcomes, LAMBDA v : v.id # last.argN)

\* C9: remove_study(citation), a study of the pool having the citation,
\* returns a pool: the copy, without that study, the same label registered
\* on it again
C9_RemoveStudyReturnsPool ==
    (last.op = "remove_study" /\ last.raised = "")
        => /\ last.rkind = "pool"
           /\ LET k == FindByCitation(poolObjs[last.taddr].studies, last.argS)
              IN  PoolVal(last.raddr).studies = RemoveAt(PoolVal(last.taddr).studies, k)
           /\ poolObjs[last.raddr].outcome_label = poolObjs[last.taddr].outcome_label
           /\ CacheCurrent(poolObjs[last.raddr])

----------------------------------------------------------------------------
(* C10 *)

CopyCalls == {"Outcome.copy", "Study.copy", "StudyPool.copy"}

\* the object a copy call returned shares no object with the one copied
CopyShareNothing ==
    (last.op \in CopyCalls /\ last.raised = "")
        => /\ last.raddr # last.taddr
           /\ StudiesOf(last.rkind, last.raddr) \cap StudiesOf(last.tkind, last.taddr) = {}
           /\ OutcomesOf(last.rkind, last.raddr) \cap OutcomesOf(last.tkind, last.taddr) = {}

\* and holds what the one copied holds; a pool copied with full=False has
\* the studies, no label and an empty cache
CopySameValue ==
    (last.op \in CopyCalls /\ last.raised = "")
        => IF last.op = "StudyPool.copy" /\ last.argS # "full"
           THEN PoolVal(last.raddr) = [PoolVal(last.taddr) EXCEPT !.outcome_label = "",
                                          !.effect_sizes = <<>>, !.variances = <<>>]
           ELSE ObjVal(last.rkind, last.raddr) = ObjVal(last.tkind, last.taddr)

\* C10: a copy (of an outcome, a study, a pool, full or not) holds the
\* original's value and shares no object with it; a call made next on the
\* copy or on a part of it leaves the original's value as it was, and one
\* made on the original or a part of it leaves the copy's; and any call
\* leaves the value of every object it was not made on or on a part of
C10_CopiesIndependent ==
    [][ calls' = calls + 1 =>
        /\ CopyShareNothing'
        /\ CopySameValue'
        /\ (last.op \in CopyCalls /\ last.raised = "" /\ last'.tkind # "none")
              => \A o \in {<<last.tkind, last.taddr>>}, c \in {<<last.rkind, last.raddr>>} :
                    /\ PartOf(last'.tkind, last'.taddr, c[1], c[2])
                          => ObjVal(o[1], o[2])' = ObjVal(o[1], o[2])
                    /\ PartOf(last'.tkind, last'.taddr, o[1], o[2])
                          => ObjVal(c[1], c[2])' = ObjVal(c[1], c[2])
        /\ \A x \in Objects :
              (last'.tkind # "none" /\ ~PartOf(last'.tkind, last'.taddr, x[1], x[2]))
                 => ObjVal(x[1], x[2])' = ObjVal(x[1], x[2]) ]_vars

\* C10's case: a pool copied and then an estimate set on an outcome of the
\* copy, which the original does not hold
C10_Witness ==
    /\ last.op = "set_estimate"
    /\ Len(poolObjs) = 2
    /\ last.taddr \in OutcomesOf("pool", 2)
    /\ last.taddr \notin OutcomesOf("pool", 1)
    /\ PoolVal(2).studies # PoolVal(1).studies

----------------------------------------------------------------------------
(* The statistics on pools of one to MaxStatOutcomes matching outcomes *)

MaxStatOutcomes == 3
MaxStatCalls == 2

\* (effect_size, variance) pairs with positive variances
StatEstimates == { <<R(0, 1), R(1, 1)>>, <<R(1, 1), R(1, 2)>>, <<R(3, 1), R(1, 2)>> }

\* the state after
\*   o_i = Outcome('crime', 25, 25, effect_size=.., variance=..)
\*   s1 = Study(note, 'Kris et al 2019', outcomes=[o_1])
\*   s2 = Study(note, 'Kris et al 2018', outcomes=[o_2, ...])
\*   pool = StudyPool([s1, s2], outcome_label='crime')
InitStats ==
    \E n \in SampleSizes, ests \in SeqsOf(StatEstimates, 1, MaxStatOutcomes) :
        /\ tracker = Len(ests)
        /\ outObjs = [i \in 1..Len(ests) |-> NewOutcomeObj("Outcome", "crime", n, n, ests[i], i - 1)]
        /\ studyObjs = << [citation |-> "Kris et al 2019", outcomes |-> <<1>>],
                          [citation |-> "Kris et al 2018",
                           outcomes |-> [j \in 1..(Len(ests) - 1) |-> j + 1]] >>
        /\ poolObjs = << Registered(FreshPool(<<1, 2>>, "crime"), "crime") >>
        /\ last = NoCall
        /\ calls = 0
        /\ ThreadsIdle

NextStats ==
    \E p \in PoolAddrs, st \in Statistics, m \in Methods : Counted(MaxStatCalls) /\ Stat(p, st, m)

SpecStats == InitStats /\ [][NextStats]_vars

\* the cache the last call's pool holds
LastEs == poolObjs[last.taddr].effect_sizes
LastVar == poolObjs[last.taddr].variances

\* every cached variance is a positive finite number
PositiveVariances(var) == \A i \in 1..Len(var) : IsFinite(var[i]) /\ var[i][1] > 0

\* the sum over i = 1..k of es[i]^2 / var[i], and of 1 / var[i]
RECURSIVE SumWX2(_, _, _)
SumWX2(es, var, k) ==
    IF k = 0 THEN R(0, 1)
    ELSE FAdd(SumWX2(es, var, k - 1), NpDiv(FMul(es[k], es[k]), var[k]))

RECURSIVE SumW(_, _)
SumW(var, k) == IF k = 0 THEN R(0, 1) ELSE FAdd(SumW(var, k - 1), NpDiv(R(1, 1), var[k]))

RECURSIVE SumW2(_, _)
SumW2(var, k) ==
    IF k = 0 THEN R(0, 1)
    ELSE FAdd(SumW2(var, k - 1), NpDiv(R(1, 1), FMul(var[k], var[k])))

----------------------------------------------------------------------------
(* C13 *)

\* the method 'auto' is to select on a cache: 're' when p < 0.05
AutoMethod(es, var) ==
    IF PValue(FSub(SumWX2(es, var, Len(es)), NpDiv(SumWX2(es, var, Len(es)), SumW(var, Len(var)))),
              Len(es) - 1) = "p<0.05"
    THEN "re" ELSE "fe"

\* C13: meta_analysis(method='auto') on a non-empty cache returns the pooled
\* effect size and the pooled variance of one method, random effects when
\* the p-value of Q is below 0.05 and fixed effects otherwise; and it
\* returns what the call meta_analysis(method) made before it on the same
\* pool returned, that method being the one 'auto' selects
C13_AutoSelects ==
    [][ (/\ calls' = calls + 1
         /\ last'.op = "meta_analysis"
         /\ last'.argS = "auto"
         /\ poolObjs[last'.taddr].effect_sizes # <<>>)
        => \A es \in {poolObjs[last'.taddr].effect_sizes}, var \in {poolObjs[last'.taddr].variances} :
             /\ last'.raised = ""
             /\ last'.rnum = <<IvwEffectSize(es, var, AutoMethod(es, var)),
                               PooledVariance(es, var, AutoMethod(es, var))>>
             /\ (/\ last.op = "meta_analysis"
                 /\ last.taddr = last'.taddr
                 /\ last.argS = AutoMethod(es, var))
                   => last'.rnum = last.rnum ]_vars

\* C13's case: meta_analysis('fe') and then meta_analysis('auto') on a cache
\* whose Q is significant, so that the result is not the one returned before
C13_Witness ==
    /\ calls = 2
    /\ last.op = "meta_analysis"
    /\ last.argS = "auto"
    /\ AutoMethod(LastEs, LastVar) = "re"
    /\ last.rnum # <<IvwEffectSize(LastEs, LastVar, "fe"), PooledVariance(LastEs, LastVar, "fe")>>

----------------------------------------------------------------------------
(* C14 *)

----------------------------------------------------------------------------
(* C17 *)

\* C17: calculate_re on a non-empty cache with positive variances returns a
\* number >= 0: (Q - dof) / (sum(w) - sum(w^2)/sum(w)) when that is positive,
\* and 0 when it is <= 0
C17_TauSquareNonNegative ==
    (/\ last.op = "calculate_re"
     /\ Len(LastEs) >= 1
     /\ PositiveVariances(LastVar))
        => /\ last.raised = ""
           /\ ~IsNaN(last.rnum[1])
           /\ FLeq(R(0, 1), last.rnum[1])

----------------------------------------------------------------------------
(* Binary and continuous outcomes constructed and estimated *)

MaxEstimateCalls == 3

NextEstimate ==
    \/ \E k \in Kinds \ {"Outcome"}, sz \in EstimateSizes : \E d \in VariantData(k) :
          Counted(MaxEstimateCalls) /\ VariantInit(k, "crime", sz[1], sz[2], d)
    \/ \E o \in OutAddrs, use_pre \in BOOLEAN : Counted(MaxEstimateCalls) /\ Estimate(o, use_pre)
    \/ \E o \in OutAddrs, d \in EffectArgs : Counted(MaxEstimateCalls) /\ CalculateVariance(o, d)

SpecEstimate == InitEmpty /\ [][NextEstimate]_vars

----------------------------------------------------------------------------
(* C11, C12 *)

\* the outcome the last call was made on
LastOutcome == outObjs[last.taddr]

\* a pre-period field estimate(use_pre=True) reads is None
PreMissing(o) ==
    \/ IsNone(o.data.treat_pre)
    \/ IsNone(o.data.control_pre)
    \/ o.kind = "ContinuousOutcome" /\ (IsNone(o.data.treat_pre_sd) \/ IsNone(o.data.control_pre_sd))

\* C11: estimate(use_pre=True) on a binary or continuous outcome with a
\* pre-period field absent (the post-period inputs being good) raises the
\* dedicated error, Exception('Pre-period scores not found or incomplete.')
C11_MissingPreRaisesDedicated ==
    (/\ last.op = "estimate"
     /\ last.argS = "use_pre"
     /\ PostError(LastOutcome) = ""
     /\ PreMissing(LastOutcome))
        => last.raised = "Exception"

\* C12: an estimate call that raises nothing returns a pair, the
\* effect_size and the variance it stored on the outcome
C12_EstimateReturnsPair ==
    (last.op = "estimate" /\ last.raised = "")
        => /\ last.rkind = "pair"
           /\ last.rnum = <<LastOutcome.effect_size, LastOutcome.variance>>

----------------------------------------------------------------------------
(* C15 *)

\* C15: calculate_variance(d) on a continuous outcome with positive sample
\* sizes returns (treat_n + control_n/(treat_n*control_n)) + d^2/(2*(treat_n+control_n))
C15_VarianceFormula ==
    (/\ last.op = "ContinuousOutcome.calculate_variance"
     /\ LastOutcome.treat_n > 0
     /\ LastOutcome.control_n > 0)
        => /\ last.raised = ""
           /\ \A tn \in {LastOutcome.treat_n}, cn \in {LastOutcome.control_n}, d \in {last.rnum[2]} :
                 last.rnum[1] = FAdd(FAdd(R(tn, 1), R(cn, tn * cn)),
                                     NpDiv(FMul(d, d), R(2 * (tn + cn), 1)))

----------------------------------------------------------------------------
(* C16 *)

\* the outcome with its pre-period inputs in the place of the post-period ones
PreAsPost(o) ==
    [o EXCEPT !.data = [o.data EXCEPT !.treat_post = o.data.treat_pre,
                                      !.control_post = o.data.control_pre,
                                      !.treat_post_sd = o.data.treat_pre_sd,
                                      !.control_post_sd = o.data.control_pre_sd]]

\* C16: an estimate call that raises nothing stores, with use_pre, the
\* post-only effect size minus the effect size the same procedure gives on
\* the pre-period inputs alone, the post-only variance plus the pre-only
\* variance, and the method 'logit_gains' / 'SMD_gains'; without use_pre,
\* the post-only values and 'logit_post' / 'SMD_post'.  The post-only values
\* are those a call estimate(use_pre=False) made just before on the same
\* outcome stored.
C16_GainsFromPostAndPre ==
    [][ (/\ calls' = calls + 1
         /\ last'.op = "estimate"
         /\ last'.raised = "")
        => \A o \in {outObjs[last'.taddr]}, e \in {outObjs'[last'.taddr]} :
             /\ last'.argS = ""
                  => /\ e.effect_size = PostEffect(o)
                     /\ e.variance = PostVariance(o)
                     /\ e.method = IF o.kind = "BinaryOutcome" THEN "logit_post" ELSE "SMD_post"
             /\ last'.argS = "use_pre"
                  => /\ ~PreMissing(o)
                     /\ e.effect_size = FSub(PostEffect(o), PostEffect(PreAsPost(o)))
                     /\ e.variance = FAdd(PostVariance(o), PostVariance(PreAsPost(o)))
                     /\ e.method = IF o.kind = "BinaryOutcome" THEN "logit_gains" ELSE "SMD_gains"
                     /\ (/\ last.op = "estimate" /\ last.raised = "" /\ last.argS = ""
                         /\ last.taddr = last'.taddr)
                           => /\ e.effect_size = FSub(o.effect_size, PostEffect(PreAsPost(o)))
                              /\ e.variance = FAdd(o.variance, PostVariance(PreAsPost(o)))
             /\ e.data = o.data /\ e.id = o.id /\ e.label = o.label ]_vars

\* C16's case: estimate() and then estimate(use_pre=True) on a binary
\* outcome, the pre-period effect size not being zero
C16_Witness ==
    /\ last.op = "estimate"
    /\ last.argS = "use_pre"
    /\ last.raised = ""
    /\ calls = 3
    /\ LastOutcome.kind = "BinaryOutcome"
    /\ LastOutcome.method = "logit_gains"
    /\ LastOutcome.effect_size # PostEffect(LastOutcome)

\* the same on a continuous outcome
C16_WitnessContinuous ==
    /\ last.op = "estimate"
    /\ last.argS = "use_pre"
    /\ last.raised = ""
    /\ LastOutcome.kind = "ContinuousOutcome"
    /\ LastOutcome.method = "SMD_gains"
    /\ LastOutcome.effect_size # PostEffect(LastOutcome)

-----------------------------------------------------------------------------
(* Adding outcomes of different kinds *)

\* C18: a + b of two outcomes of the same label, whatever their kinds,
\* succeeds and gives an outcome whose treat_n and control_n are the sums of
\* the operands', in either order of the operands.  The divisions of the
\* inverse-variance weighting are left aside: only operands whose weights
\* can be formed and divided by are considered.
C18_AddCommutes ==
    (/\ last.op = "__add__"
     /\ outObjs[last.taddr].label = outObjs[last.argN].label
     /\ ~AddDividesByZero(outObjs[last.taddr], outObjs[last.argN]))
        => /\ last.raised = ""
           /\ last.rkind = "outcome"
           /\ outObjs[last.raddr].treat_n =
                  outObjs[last.taddr].treat_n + outObjs[last.argN].treat_n
           /\ outObjs[last.raddr].control_n =
                  outObjs[last.taddr].control_n + outObjs[last.argN].control_n

-----------------------------------------------------------------------------
(* Comparing outcomes: constructors, copies, == and != *)

MaxCompareCalls == 3

\* sample sizes of the base outcomes compared
CompareSizes == {3, 25}

\* estimates of the base outcomes compared
CompareEstimates == {DefaultEstimate, <<R(1, 2), R(1, 2)>>}

NextCompare ==
    \/ \E l \in Labels, n \in CompareSizes, e \in CompareEstimates :
          Counted(MaxCompareCalls) /\ OutcomeInit(l, n, e)
    \/ \E k \in Kinds \ {"Outcome"}, sz \in EstimateSizes : \E d \in PostOnlyData(k) :
          Counted(MaxCompareCalls) /\ VariantInit(k, "crime", sz[1], sz[2], d)
    \/ \E o \in OutAddrs : Counted(MaxCompareCalls) /\ OutcomeCopy(o)
    \/ \E x \in OutAddrs, y \in OutAddrs : Counted(MaxCompareCalls) /\ OutcomeEqCall(x, y)
    \/ \E x \in OutAddrs, y \in OutAddrs : Counted(MaxCompareCalls) /\ OutcomeNeCall(x, y)

SpecCompare == InitEmpty /\ [][NextCompare]_vars

\* the five compared fields of two outcomes hold the same values
SameFive(a, b) ==
    /\ a.label = b.label
    /\ a.effect_size = b.effect_size
    /\ a.variance = b.variance
    /\ a.treat_n = b.treat_n
    /\ a.control_n = b.control_n

\* C19: x == y on two outcomes is True exactly when their label,
\* effect_size, variance, treat_n and control_n are the same, whatever their
\* ids, methods, kinds and variant-specific data, and x != y is True exactly
\* when x == y is not.
C19_EqualityOnFiveFields ==
    /\ last.op = "__eq__" =>
          (last.rtag = "True" <=> SameFive(outObjs[last.taddr], outObjs[last.argN]))
    /\ last.op = "__ne__" =>
          (last.rtag = "True" <=> ~SameFive(outObjs[last.taddr], outObjs[last.argN]))
    /\ last.op \in {"__eq__", "__ne__"} =>
          /\ last.raised = ""
          /\ last.rtag \in {"True", "False"}

\* C19's case: == answers True for two outcomes of different ids and kinds
C19_Witness ==
    /\ last.op = "__eq__"
    /\ last.rtag = "True"
    /\ outObjs[last.taddr].id # outObjs[last.argN].id
    /\ outObjs[last.taddr].kind # outObjs[last.argN].kind
    /\ outObjs[last.taddr].data # outObjs[last.argN].data

\* != answers True for two outcomes that differ in treat_n alone
C19_WitnessNe ==
    /\ last.op = "__ne__"
    /\ last.rtag = "True"
    /\ outObjs[last.taddr].treat_n # outObjs[last.argN].treat_n
    /\ outObjs[last.taddr].label = outObjs[last.argN].label
    /\ outObjs[last.taddr].effect_size = outObjs[last.argN].effect_size
    /\ outObjs[last.taddr].variance = outObjs[last.argN].variance

-----------------------------------------------------------------------------
(* Looking an outcome up by its id *)

\* C20: get_outcome_by_id(id) returns the outcome of that id when the study
\* holds one, and raises a not-found error when it holds none.
C20_GetMissingRaises ==
    last.op = "get_outcome_by_id" =>
        IF last.argN \in IdsOf(studyObjs[last.taddr].outcomes)
        THEN /\ last.raised = ""
             /\ last.rkind = "outcome"
             /\ outObjs[last.raddr].id = last.argN
             /\ \E i \in 1..Len(studyObjs[last.taddr].outcomes) :
                    studyObjs[last.taddr].outcomes[i] = last.raddr
        ELSE last.raised # ""

\* the half of the above that is about an id the study holds
C20_GetPresentReturns ==
    (/\ last.op = "get_outcome_by_id"
     /\ last.argN \in IdsOf(studyObjs[last.taddr].outcomes))
        => /\ last.raised = ""
           /\ last.rkind = "outcome"
           /\ outObjs[last.raddr].id = last.argN

-----------------------------------------------------------------------------
(* Studies built from outcomes: constructors and append_outcome *)

MaxStudyCalls == 4

NextStudy ==
    \/ \E l \in Labels, n \in SampleSizes : Counted(MaxStudyCalls) /\ OutcomeInit(l, n, <<R(1, 2), R(1, 2)>>)
    \/ \E c \in Citations, outs \in SeqsOf(OutAddrs, 0, MaxOutcomeArgs) :
          Counted(MaxStudyCalls) /\ StudyInit(c, outs)
    \/ \E s \in StudyAddrs, o \in OutAddrs : Counted(MaxStudyCalls) /\ AppendOutcome(s, o)

SpecStudy == InitEmpty /\ [][NextStudy]_vars

\* C21: each outcome belongs to one study only: no outcome is held by two
\* studies, and none is twice in the outcome list of one study.
C21_OutcomeOwnedOnce ==
    \A s1 \in StudyAddrs, s2 \in StudyAddrs :
        \A i \in 1..Len(studyObjs[s1].outcomes), j \in 1..Len(studyObjs[s2].outcomes) :
            studyObjs[s1].outcomes[i] = studyObjs[s2].outcomes[j]
                => (s1 = s2 /\ i = j)

-----------------------------------------------------------------------------
(* An estimate that fails *)

\* C22: a call of estimate that raises leaves the outcome's effect_size,
\* variance and method as they were before the call.
C22_FailedEstimateChangesNothing ==
    [][ (last'.op = "estimate" /\ last'.raised # "")
          => \A o \in {outObjs[last'.taddr]} :
                /\ outObjs'[last'.taddr].effect_size = o.effect_size
                /\ outObjs'[last'.taddr].variance = o.variance
                /\ outObjs'[last'.taddr].method = o.method ]_vars

\* the part of the above about the numbers: a call of estimate that raises
\* leaves effect_size and variance as they were
C22_FailedEstimateKeepsNumbers ==
    [][ (last'.op = "estimate" /\ last'.raised # "")
          => \A o \in {outObjs[last'.taddr]} :
                /\ outObjs'[last'.taddr].effect_size = o.effect_size
                /\ outObjs'[last'.taddr].variance = o.variance ]_vars

-----------------------------------------------------------------------------
(* The pre-period accessors of a continuous outcome *)

MaxAccessorCalls == 3

\* standard deviations passed to set_pre_sd
SdArgs == {R(2, 1), R(3, 1)}

NextAccessors ==
    \/ \E sz \in EstimateSizes, d \in ContinuousData :
          Counted(MaxAccessorCalls) /\ VariantInit("ContinuousOutcome", "crime", sz[1], sz[2], d)
    \/ \E o \in OutAddrs : Counted(MaxAccessorCalls) /\ GetPreMean(o)
    \/ \E o \in OutAddrs, a \in SdArgs, b \in SdArgs : Counted(MaxAccessorCalls) /\ SetPreSd(o, a, b)
    \/ \E o \in OutAddrs : Counted(MaxAccessorCalls) /\ GetPreSd(o)

SpecAccessors == InitEmpty /\ [][NextAccessors]_vars

\* C23: set_pre_sd(a, b) followed by get_pre_sd() on the same outcome returns
\* (a, b), and set_pre_sd leaves what get_pre_mean() returns as it was.
C23_SetPreSdRoundTrip ==
    [][ /\ (/\ last.op = "set_pre_sd"
            /\ last'.op = "get_pre_sd"
            /\ last'.taddr = last.taddr)
              => last'.rnum = last.rnum
        /\ last'.op = "set_pre_sd"
              => \A d \in {outObjs[last'.taddr].data} :
                    /\ outObjs'[last'.taddr].data.treat_pre = d.treat_pre
                    /\ outObjs'[last'.taddr].data.control_pre = d.control_pre ]_vars

====
